---- MODULE Spec2Model ----
(***************************************************************************)
(* A model of the T-Invest portfolio bot (src/utils/api_client.py and      *)
(* src/handlers/stock_handler.py).                                         *)
(*                                                                         *)
(* The module holds several specifications over one set of variables:      *)
(*   SpecQuot       format_quotation, applied to every shape of input;     *)
(*   SpecValuation  the portfolio view, its keyboard and the position view; *)
(*   SpecGateway    the gateway operations under every transport outcome;  *)
(*   SpecCache      the portfolio cache as time passes;                    *)
(*   SpecHistory    the portfolio history replayed from the operations.    *)
(* Each specification pins the variables of the others to their idle       *)
(* values.                                                                 *)
(***************************************************************************)
EXTENDS Integers, Sequences, FiniteSets, TLC

VARIABLES
    quotation,      \* SpecQuot: the argument of format_quotation
    qvalue,         \* SpecQuot: format_quotation(quotation), or NotCalled
    qvalue2,        \* SpecQuot: format_quotation(qvalue), or NotCalled
    positions,      \* SpecValuation: the share positions get_portfolio_positions returned
    prices_data,    \* SpecValuation: get_last_prices' answer: figi -> price, or None
    limits,         \* SpecValuation: get_withdraw_limits' answer, or None
    total_amount,   \* SpecValuation: the portfolio's totalAmountCurrencies
    yesterday_value,\* SpecValuation: get_portfolio_value_yesterday's answer, or None
    shown,          \* SpecValuation: what the last handler computed, or NotCalled
    cache,          \* SpecGateway: _cache, account id -> NoEntry or (data, timestamp)
    clock,          \* SpecGateway: time.time(), in seconds
    ticks,          \* SpecGateway: how often the clock has advanced
    issued,         \* SpecGateway: per account, when a cached call last issued a fetch, or -1
    stored,         \* SpecGateway: per account, when a call last stored an entry that was not cleared since, or -1
    last,           \* SpecGateway: the last gateway call, its transport outcome and result
    ledger,         \* SpecHistory: the positions, portfolio, operations and candles the history is computed from
    history,        \* SpecHistory: the series the last call computed (None, or its points), or NotCalled
    replay,         \* SpecHistory: what the last call did: its path, candle interval and the states of its roll back
    value_yesterday,\* SpecHistory: what get_portfolio_value_yesterday returned, NotCalled when the last call was another
    session,        \* SpecSession: _session, None or the Session object it refers to
    session_lock,   \* SpecSession: _session_lock, the thread holding it or NoThread
    objects,        \* SpecSession: the Session objects constructed so far, object id -> its headers
    pc,             \* SpecSession: per thread, the line of get_session it stands at
    seen_none,      \* SpecSession: the threads whose unlocked check found _session None
    returned,       \* SpecSession: per thread, what its calls of get_session returned
    PHONE,          \* SpecAuth: the PHONE environment variable, a string
    authenticated,  \* SpecAuth: the users whose contact number matched in phone_handler
    api_calls,      \* SpecAuth: per user, the gateway operations the bot called while serving them
    replies,        \* SpecAuth: per user, the last thing the bot sent them
    cache_lock,     \* SpecCacheThreads: _cache_lock, the thread holding it or NoThread
    step,           \* SpecCacheThreads: per thread, the step of its call it stands at
    frame,          \* SpecCacheThreads: per thread, the arguments and local variables of its call
    calls_made      \* SpecCacheThreads: per thread, how many calls it has finished

quotVars == <<quotation, qvalue, qvalue2>>
valInputs == <<positions, prices_data, limits, total_amount, yesterday_value>>
valVars == <<valInputs, shown>>
gwVars == <<cache, clock, ticks, issued, stored, last>>
histVars == <<ledger, history, replay, value_yesterday>>
sessVars == <<session, session_lock, objects, pc, seen_none, returned>>
authVars == <<PHONE, authenticated, api_calls, replies>>
lockVars == <<cache_lock, step, frame, calls_made>>
vars == <<quotVars, valVars, gwVars, histVars, sessVars, authVars, lockVars>>

(***************************************************************************)
(* Python values, as far as format_quotation tells them apart.             *)
(*   None; bool; int (in float range, or beyond it: "bigint");             *)
(*   float: finite (whole part i and fraction f/NanoPerUnit, 0 <= f),      *)
(*          nan, +inf, -inf;                                               *)
(*   str; list (any non-dict container), dict with optional "units" and    *)
(*   "nano" keys ("missing" marks an absent key) and possibly other keys.  *)
(* A call's outcome is a value or a raised exception.                      *)
(***************************************************************************)
NanoPerUnit == 1000000000

PyNone == [t |-> "None"]
PyMissing == [t |-> "missing"]
PyBool(b) == [t |-> "bool", b |-> b]
PyInt(n) == [t |-> "int", n |-> n]
PyBigInt == [t |-> "bigint"]
PyFloat(i, f) == [t |-> "float", i |-> i, f |-> f]
PyNan == [t |-> "nan"]
PyInf(sign) == [t |-> "inf", sign |-> sign]
PyStr(s) == [t |-> "str", s |-> s]
PyList(n) == [t |-> "list", n |-> n]
PyDict(units, nano, other) == [t |-> "dict", units |-> units, nano |-> nano, other |-> other]
Raised(e) == [t |-> "raise", e |-> e]
NotCalled == [t |-> "notcalled"]

\* the values a specification pins the other specifications' variables to
QuotIdle == quotation = PyNone /\ qvalue = NotCalled /\ qvalue2 = NotCalled

ValIdle ==
    /\ positions = <<>>
    /\ prices_data = PyNone
    /\ limits = PyNone
    /\ total_amount = PyNone
    /\ yesterday_value = PyNone
    /\ shown = NotCalled

NoEntry == [t |-> "noentry"]
Accounts == {"a1", "a2"}

GwIdle ==
    /\ cache = [a \in Accounts |-> NoEntry]
    /\ clock = 0
    /\ ticks = 0
    /\ issued = [a \in Accounts |-> -1]
    /\ stored = [a \in Accounts |-> -1]
    /\ last = NotCalled

HistIdle ==
    /\ ledger = PyNone
    /\ history = NotCalled
    /\ replay = NotCalled
    /\ value_yesterday = NotCalled

NumThreads == 3
Threads == 1..NumThreads
NoThread == 0

SessIdle ==
    /\ session = PyNone
    /\ session_lock = NoThread
    /\ objects = <<>>
    /\ pc = [t \in Threads |-> "idle"]
    /\ seen_none = {}
    /\ returned = [t \in Threads |-> <<>>]

CacheThreads == {1, 2}
NoFrame == [account_id |-> "", use_cache |-> FALSE, now |-> 0, result |-> PyNone]

LockIdle ==
    /\ cache_lock = NoThread
    /\ step = [t \in CacheThreads |-> "idle"]
    /\ frame = [t \in CacheThreads |-> NoFrame]
    /\ calls_made = [t \in CacheThreads |-> 0]

Users == {"owner", "stranger"}

AuthIdle ==
    /\ PHONE = <<>>
    /\ authenticated = {}
    /\ api_calls = [u \in Users |-> {}]
    /\ replies = [u \in Users |-> "none"]

\* float(n) for an int n inside the float range
FloatOfInt(n) == PyFloat(n, 0)
Zero == PyFloat(0, 0)

\* Python truthiness: what `not x` negates
Truthy(x) ==
    CASE x.t = "None" -> FALSE
      [] x.t = "missing" -> FALSE
      [] x.t = "bool" -> x.b
      [] x.t = "int" -> x.n # 0
      [] x.t = "float" -> ~(x.i = 0 /\ x.f = 0)
      [] x.t = "str" -> x.s # ""
      [] x.t = "list" -> x.n # 0
      [] x.t = "dict" -> ~(x.units = PyMissing /\ x.nano = PyMissing /\ ~x.other)
      [] OTHER -> TRUE

\* The strings the model feeds in, with what float(s) and int(s) make of them.
Strings == {"", "0", "12", "1.5", "-3", " 7 ", "abc", "1,5", "nan", "inf", "-inf", "1e999"}

\* float(s) for a str: a float, or ValueError
StrToFloat(s) ==
    CASE s = "0" -> Zero
      [] s = "12" -> PyFloat(12, 0)
      [] s = "1.5" -> PyFloat(1, NanoPerUnit \div 2)
      [] s = "-3" -> PyFloat(-3, 0)
      [] s = " 7 " -> PyFloat(7, 0)
      [] s = "nan" -> PyNan
      [] s = "inf" -> PyInf(1)
      [] s = "-inf" -> PyInf(-1)
      [] s = "1e999" -> PyInf(1)
      [] OTHER -> Raised("ValueError")

\* int(s) for a str: an int, or ValueError
StrToInt(s) ==
    CASE s = "0" -> PyInt(0)
      [] s = "12" -> PyInt(12)
      [] s = "-3" -> PyInt(-3)
      [] s = " 7 " -> PyInt(7)
      [] OTHER -> Raised("ValueError")

\* int(x): truncation toward zero for a float; the exceptions Python raises
PyIntOf(x) ==
    CASE x.t = "int" -> x
      [] x.t = "bigint" -> x
      [] x.t = "bool" -> PyInt(IF x.b THEN 1 ELSE 0)
      [] x.t = "float" -> PyInt(IF x.i < 0 /\ x.f > 0 THEN x.i + 1 ELSE x.i)
      [] x.t = "nan" -> Raised("ValueError")
      [] x.t = "inf" -> Raised("OverflowError")
      [] x.t = "str" -> StrToInt(x.s)
      [] OTHER -> Raised("TypeError")

\* `int(v) if v else 0` inside `try: ... except (ValueError, TypeError): v = 0`
CoerceField(v) ==
    IF ~Truthy(v) THEN PyInt(0)
    ELSE LET r == PyIntOf(v)
         IN IF r.t = "raise" /\ r.e \in {"ValueError", "TypeError"} THEN PyInt(0) ELSE r

\* units + (nano / 1_000_000_000) for two ints
UnitsPlusNano(units, nano) ==
    IF units.t = "bigint" \/ nano.t = "bigint" THEN Raised("OverflowError")
    ELSE PyFloat(units.n + (nano.n \div NanoPerUnit), nano.n % NanoPerUnit)

\* the dict branch of format_quotation
DictValue(quotation_) ==
    LET units == CoerceField(quotation_.units)
        nano == CoerceField(quotation_.nano)
    IN  IF units.t = "raise" THEN units
        ELSE IF nano.t = "raise" THEN nano
        ELSE UnitsPlusNano(units, nano)

\* float(x) for an int or a float (bool is an int)
NumberToFloat_Trunc(x) ==
    CASE x.t = "bool" -> FloatOfInt(IF x.b THEN 1 ELSE 0)
      [] x.t = "int" -> FloatOfInt(x.n)
      [] x.t = "bigint" -> Raised("OverflowError")
      [] x.t = "float" -> PyFloat(x.i, 0)
      [] OTHER -> x

NumberToFloat(x) ==
    CASE x.t = "bool" -> FloatOfInt(IF x.b THEN 1 ELSE 0)
      [] x.t = "int" -> FloatOfInt(x.n)
      [] x.t = "bigint" -> Raised("OverflowError")
      [] OTHER -> x

IsNumber(x) == x.t \in {"bool", "int", "bigint", "float", "nan", "inf"}

format_quotation(quotation_) ==
    IF ~Truthy(quotation_) THEN Zero
    ELSE IF IsNumber(quotation_) THEN NumberToFloat(quotation_)
    ELSE IF quotation_.t = "str" THEN
        LET r == StrToFloat(quotation_.s) IN IF r.t = "raise" THEN Zero ELSE r
    ELSE IF quotation_.t # "dict" THEN Zero
    ELSE DictValue(quotation_)

(***************************************************************************)
(* SpecQuot: format_quotation on every input shape.                        *)
(***************************************************************************)
Scalars ==
    {PyNone, PyBool(TRUE), PyBool(FALSE), PyBigInt, PyNan, PyInf(1), PyInf(-1),
     PyList(0), PyList(1)}
    \cup {PyInt(n) : n \in {-2, 0, 1, 5}}
    \cup {PyFloat(i, f) : i \in {-2, 0, 3}, f \in {0, NanoPerUnit \div 4}}
    \cup {PyStr(s) : s \in Strings}

\* what a "units" or "nano" key may hold
FieldValues ==
    {PyMissing, PyNone, PyBigInt, PyNan, PyInf(1), PyList(1), PyBool(TRUE),
     PyInt(0), PyInt(2), PyInt(-1), PyInt(NanoPerUnit \div 2), PyInt(NanoPerUnit),
     PyInt(0 - (NanoPerUnit \div 4)),
     PyFloat(2, NanoPerUnit \div 2), PyFloat(-3, NanoPerUnit \div 2),
     PyStr("12"), PyStr("1.5"), PyStr("abc"), PyStr("")}

QuotationInputs ==
    Scalars \cup {PyDict(u, n, o) : u \in FieldValues, n \in FieldValues, o \in BOOLEAN}

QuotInit ==
    /\ quotation \in QuotationInputs
    /\ qvalue = NotCalled
    /\ qvalue2 = NotCalled
    /\ ValIdle
    /\ GwIdle
    /\ HistIdle
    /\ SessIdle
    /\ AuthIdle
    /\ LockIdle

\* value = format_quotation(quotation)
FormatQuotation ==
    /\ qvalue = NotCalled
    /\ qvalue' = format_quotation(quotation)
    /\ UNCHANGED <<quotation, qvalue2, valVars, gwVars, histVars, sessVars, authVars, lockVars>>

\* format_quotation(value), when the first call returned
FormatAgain ==
    /\ qvalue # NotCalled
    /\ qvalue.t # "raise"
    /\ qvalue2 = NotCalled
    /\ qvalue2' = format_quotation(qvalue)
    /\ UNCHANGED <<quotation, qvalue, valVars, gwVars, histVars, sessVars, authVars, lockVars>>

QuotNext == FormatQuotation \/ FormatAgain

SpecQuot == QuotInit /\ [][QuotNext]_vars

(***************************************************************************)
(* Claims about format_quotation, under SpecQuot.                          *)
(***************************************************************************)
\* a "units"/"nano" value that reads as an integer, and that integer
FieldIsInt(v) == v.t \in {"int", "bool"} \/ (v.t = "str" /\ StrToInt(v.s).t = "int")
FieldInt(v) ==
    IF v.t = "int" THEN v.n
    ELSE IF v.t = "bool" THEN (IF v.b THEN 1 ELSE 0)
    ELSE StrToInt(v.s).n

\* C8: format_quotation is total: whatever the input, the call returns a
\* finite float and raises nothing; a dict whose units and nano are integers
\* yields units + nano/1_000_000_000, and a missing or malformed units or
\* nano counts as 0.
C8_TotalFinite ==
    qvalue # NotCalled =>
        /\ qvalue.t = "float"
        /\ quotation.t = "dict" /\ Truthy(quotation) =>
              LET u == IF FieldIsInt(quotation.units) THEN FieldInt(quotation.units) ELSE 0
                  n == IF FieldIsInt(quotation.nano) THEN FieldInt(quotation.nano) ELSE 0
              IN  quotation.units.t # "float" /\ quotation.nano.t # "float" =>
                     qvalue = PyFloat(u + (n \div NanoPerUnit), n % NanoPerUnit)

\* C9: format_quotation is idempotent: applied to its own result it takes
\* the number branch (or the empty branch for 0) and returns that result.
C9_Idempotent ==
    qvalue2 # NotCalled =>
        /\ qvalue2 = qvalue
        /\ IsNumber(qvalue)

\* C9 witness: a dict with a fraction was normalised, and normalised again
C9_Witness ==
    /\ quotation.t = "dict"
    /\ qvalue = PyFloat(2, NanoPerUnit \div 2)
    /\ qvalue2 = qvalue

(***************************************************************************)
(* Portfolio valuation (src/handlers/stock_handler.py).                    *)
(* Quantities and prices of the model are whole numbers: Num reads the     *)
(* whole part of format_quotation's float.  a / b * 100 is kept as the     *)
(* fraction (a * 100) / b.                                                 *)
(***************************************************************************)
Q(n) == PyDict(PyInt(n), PyInt(0), FALSE)
Num(x) == format_quotation(x).i

Ratio(n, d) == [n |-> n, d |-> d]
Percent(a, b) == Ratio(a * 100, b)
ZeroPercent == Ratio(0, 1)
Sign(n) == IF n > 0 THEN 1 ELSE IF n < 0 THEN -1 ELSE 0
RatioSign(r) == Sign(r.n) * Sign(r.d)
Abs(n) == IF n < 0 THEN 0 - n ELSE n

RECURSIVE SumSeq(_)
SumSeq(s) == IF s = <<>> THEN 0 ELSE Head(s) + SumSeq(Tail(s))

\* position.get(key, {})
Field(position, key) == IF key \in DOMAIN position THEN position[key] ELSE PyDict(PyMissing, PyMissing, FALSE)

\* relative_growth = absolute_growth / buy_value * 100, without the abs() of the position view
RelativeGrowth(absolute_growth, buy_value) ==
    IF buy_value # 0 THEN Percent(absolute_growth, buy_value) ELSE ZeroPercent

calculate_position_growth(position, current_price) ==
    LET quantity == Num(Field(position, "quantity"))
        average_price == Num(Field(position, "averagePositionPrice"))
        current_value == quantity * current_price
        buy_value == quantity * average_price
        absolute_growth == current_value - buy_value
    IN  [absolute_growth |-> absolute_growth,
         relative_growth |-> RelativeGrowth(absolute_growth, buy_value),
         buy_value |-> buy_value, current_value |-> current_value]

\* price_map: the last price of each figi of prices_data["last_prices"]; a
\* later item of the same figi overwrites an earlier one
price_map_get(prices, figi) ==
    IF prices = PyNone THEN 0
    ELSE LET items == SelectSeq(prices.last_prices, LAMBDA it : it.figi = figi)
         IN  IF items = <<>> THEN 0 ELSE Num(items[Len(items)].price)

\* the price the portfolio view and its keyboard value a position at
ViewPrice(prices, position) ==
    LET current_price == price_map_get(prices, position.figi)
    IN  IF current_price = 0 THEN Num(Field(position, "currentPrice")) ELSE current_price

\* one button of create_portfolio_keyboard: the growth is shown when the price is > 0
KeyboardButton(prices, position) ==
    LET current_price == ViewPrice(prices, position)
    IN  IF current_price > 0
        THEN [figi |-> position.figi, growth |-> calculate_position_growth(position, current_price)]
        ELSE [figi |-> position.figi, growth |-> PyNone]

create_portfolio_keyboard(positions_, prices) ==
    [i \in 1..Len(positions_) |-> KeyboardButton(prices, positions_[i])]

\* extract_money_value: None for no values (a missing "money" key reads as
\* the empty list here), else the amount of values[0]
extract_money_value(values) ==
    IF values = <<>> THEN PyNone ELSE PyInt(Num(values[1]))

CurrentBalance(limits_, total_amount_) ==
    IF limits_ # PyNone THEN extract_money_value(limits_.money)
    ELSE extract_money_value(<<total_amount_>>)

\* total_profit_percent and today_profit_percent: x / (value - x) * 100, 0 for a zero denominator
ProfitPercent_OfValue(profit, value_without_profit) ==
    IF value_without_profit + profit # 0
    THEN Percent(profit, value_without_profit + profit) ELSE ZeroPercent

ProfitPercent(profit, value_without_profit) ==
    IF value_without_profit # 0 THEN Percent(profit, value_without_profit) ELSE ZeroPercent

\* the "view_stocks" branch of stock_handler, for a non-empty positions list
ViewStocksResult(positions_, prices, limits_, total_amount_, yesterday) ==
    LET current_balance == CurrentBalance(limits_, total_amount_)
        stocks_value ==
            SumSeq([i \in 1..Len(positions_) |->
                Num(Field(positions_[i], "quantity")) * ViewPrice(prices, positions_[i])])
        total_buy_value ==
            SumSeq([i \in 1..Len(positions_) |->
                Num(Field(positions_[i], "quantity")) * Num(Field(positions_[i], "averagePositionPrice"))])
        balance_amount == IF current_balance # PyNone THEN current_balance.n ELSE 0
        portfolio_value == balance_amount + stocks_value
        total_profit_absolute == stocks_value - total_buy_value
        portfolio_value_without_profit == portfolio_value - total_profit_absolute
        has_yesterday == yesterday # PyNone /\ yesterday.i > 0
        today_profit_absolute == IF has_yesterday THEN portfolio_value - yesterday.i ELSE 0
    IN  [view |-> "portfolio",
         current_balance |-> current_balance,
         stocks_value |-> stocks_value,
         total_buy_value |-> total_buy_value,
         portfolio_value |-> portfolio_value,
         total_profit_absolute |-> total_profit_absolute,
         total_profit_percent |-> ProfitPercent(total_profit_absolute, portfolio_value_without_profit),
         today_profit_absolute |-> today_profit_absolute,
         today_profit_percent |->
             IF has_yesterday
             THEN ProfitPercent(today_profit_absolute, portfolio_value - today_profit_absolute)
             ELSE ZeroPercent,
         keyboard |-> create_portfolio_keyboard(positions_, prices)]

\* profit_loss_percent of the position view: profit_loss / abs(total_buy_value) * 100
ProfitLossPercent(profit_loss, total_buy_value) ==
    LET profit_loss_base == Abs(total_buy_value)
    IN  IF profit_loss_base > 0 THEN Percent(profit_loss, profit_loss_base) ELSE ZeroPercent

\* the price of the position view: the position's own currentPrice when it
\* is > 0, else the first last price returned for the figi
DetailPrice(prices, position_info) ==
    LET current_price_pos == Num(Field(position_info, "currentPrice"))
        items == IF prices = PyNone THEN <<>>
                 ELSE SelectSeq(prices.last_prices, LAMBDA it : it.figi = position_info.figi)
        current_price == IF items = <<>> THEN 0 ELSE Num(items[1].price)
    IN  IF current_price_pos > 0 THEN current_price_pos ELSE current_price

\* the "portfolio_select::<figi>" branch of stock_handler, for a position found
PositionDetailResult(prices, position_info) ==
    LET quantity == Num(Field(position_info, "quantity"))
        current_price == DetailPrice(prices, position_info)
        average_price == Num(Field(position_info, "averagePositionPrice"))
        total_buy_value == quantity * average_price
        total_current == quantity * current_price
        profit_loss == total_current - total_buy_value
    IN  [view |-> "position",
         figi |-> position_info.figi,
         current_price |-> current_price,
         total_buy_value |-> total_buy_value,
         total_current |-> total_current,
         profit_loss |-> profit_loss,
         profit_loss_percent |-> ProfitLossPercent(profit_loss, total_buy_value)]

(***************************************************************************)
(* SpecValuation: the handlers applied to every portfolio of the bounds.   *)
(***************************************************************************)
Figis == <<"F1", "F2">>
Quantities == {-10, 10}
AveragePrices == {0, 100}
CurrentPrices == {0, 90, 120}
LastPrices == {0, 120}
Balances == {0, 500}

PositionsOf(figi) ==
    {[figi |-> figi, quantity |-> Q(q), averagePositionPrice |-> Q(a), currentPrice |-> Q(c)] :
        q \in Quantities, a \in AveragePrices, c \in CurrentPrices}

PortfolioInputs ==
    {<<p>> : p \in PositionsOf(Figis[1])}
    \cup {<<p1, p2>> : p1 \in PositionsOf(Figis[1]), p2 \in PositionsOf(Figis[2])}

PriceItem(figi, price) == [figi |-> figi, price |-> Q(price)]

\* get_last_prices: None when the API returned no price, else the items
PricesInputs ==
    {PyNone}
    \cup {[last_prices |-> <<PriceItem(Figis[1], a)>>] : a \in LastPrices}
    \cup {[last_prices |-> <<PriceItem(Figis[2], b)>>] : b \in LastPrices}
    \cup {[last_prices |-> <<PriceItem(Figis[1], a), PriceItem(Figis[2], b)>>] :
            a \in LastPrices, b \in LastPrices}

LimitsInputs ==
    {PyNone, [money |-> <<>>]} \cup {[money |-> <<Q(b)>>] : b \in Balances}

ValInit ==
    /\ positions \in PortfolioInputs
    /\ prices_data \in PricesInputs
    /\ limits \in LimitsInputs
    /\ total_amount \in {Q(b) : b \in Balances}
    /\ yesterday_value \in {PyNone, PyFloat(1500, 0)}
    /\ shown = NotCalled
    /\ QuotIdle
    /\ GwIdle
    /\ HistIdle
    /\ SessIdle
    /\ AuthIdle
    /\ LockIdle

\* call.data == "view_stocks"
ViewStocks ==
    /\ shown' = ViewStocksResult(positions, prices_data, limits, total_amount, yesterday_value)
    /\ UNCHANGED <<valInputs, quotVars, gwVars, histVars, sessVars, authVars, lockVars>>

\* call.data == "portfolio_select::<figi>" for a figi of the portfolio
PortfolioSelect ==
    \E i \in 1..Len(positions) :
        /\ shown' = PositionDetailResult(prices_data, positions[i])
        /\ UNCHANGED <<valInputs, quotVars, gwVars, histVars, sessVars, authVars, lockVars>>

ValNext == ViewStocks \/ PortfolioSelect

SpecValuation == ValInit /\ [][ValNext]_vars

(***************************************************************************)
(* Claims about the valuation, under SpecValuation.                        *)
(***************************************************************************)
\* the fraction r is the whole number k
RatioIs(r, k) == r.d # 0 /\ r.n = k * r.d

IsShortCase(position) ==
    /\ position.quantity = Q(-10)
    /\ position.averagePositionPrice = Q(100)
    /\ position.currentPrice = Q(90)

PositionOfFigi(figi) == CHOOSE position \in {positions[i] : i \in 1..Len(positions)} : position.figi = figi

\* C4: a short position (quantity -10, average price 100) valued at 90 is
\* reported with cost basis -1000, market value -900, P/L +100 and +10%, by
\* the position view and by calculate_position_growth on the keyboard alike.
C4_ShortPosition ==
    /\ (shown # NotCalled /\ shown.view = "position"
            /\ IsShortCase(PositionOfFigi(shown.figi)) /\ shown.current_price = 90) =>
          /\ shown.total_buy_value = -1000
          /\ shown.total_current = -900
          /\ shown.profit_loss = 100
          /\ RatioIs(shown.profit_loss_percent, 10)
    /\ (shown # NotCalled /\ shown.view = "portfolio") =>
          \A i \in 1..Len(positions) :
              (IsShortCase(positions[i]) /\ ViewPrice(prices_data, positions[i]) = 90) =>
                  /\ shown.keyboard[i].growth # PyNone
                  /\ shown.keyboard[i].growth.buy_value = -1000
                  /\ shown.keyboard[i].growth.current_value = -900
                  /\ shown.keyboard[i].growth.absolute_growth = 100
                  /\ RatioIs(shown.keyboard[i].growth.relative_growth, 10)

\* the percent has the sign of the absolute P/L, and is 0 for a zero cost basis
SignCorrect(pnl_absolute, pnl_percent, cost_basis) ==
    IF cost_basis = 0 THEN RatioSign(pnl_percent) = 0
    ELSE RatioSign(pnl_percent) = Sign(pnl_absolute)

\* C5: for every position the P/L percent has the sign of the absolute P/L
\* and is 0 when the cost basis is 0 (the rule pnlAbsolute / |costBasis| * 100
\* if costBasis # 0 else 0), in the position view and on the keyboard.
C5_PercentSign ==
    /\ (shown # NotCalled /\ shown.view = "position") =>
          SignCorrect(shown.profit_loss, shown.profit_loss_percent, shown.total_buy_value)
    /\ (shown # NotCalled /\ shown.view = "portfolio") =>
          \A i \in 1..Len(positions) :
              shown.keyboard[i].growth # PyNone =>
                  SignCorrect(shown.keyboard[i].growth.absolute_growth,
                              shown.keyboard[i].growth.relative_growth,
                              shown.keyboard[i].growth.buy_value)

\* the inputs of C7, read off the raw position: units of a quotation, the
\* last price of a figi, the price rule, the balance
C7_Units(q) == q.units.n
C7_LastPrice(figi) ==
    IF prices_data = PyNone THEN 0
    ELSE IF \E k \in 1..Len(prices_data.last_prices) : prices_data.last_prices[k].figi = figi
         THEN C7_Units((CHOOSE it \in {prices_data.last_prices[k] : k \in 1..Len(prices_data.last_prices)} :
                            it.figi = figi).price)
         ELSE 0
C7_Price(position) ==
    IF C7_LastPrice(position.figi) # 0 THEN C7_LastPrice(position.figi)
    ELSE C7_Units(position.currentPrice)
C7_Balance ==
    IF limits # PyNone
    THEN (IF limits.money = <<>> THEN 0 ELSE C7_Units(limits.money[1]))
    ELSE C7_Units(total_amount)
C7_StocksValue ==
    C7_Units(positions[1].quantity) * C7_Price(positions[1])
    + (IF Len(positions) > 1 THEN C7_Units(positions[2].quantity) * C7_Price(positions[2]) ELSE 0)
C7_BuyValue ==
    C7_Units(positions[1].quantity) * C7_Units(positions[1].averagePositionPrice)
    + (IF Len(positions) > 1
       THEN C7_Units(positions[2].quantity) * C7_Units(positions[2].averagePositionPrice) ELSE 0)

C7_Scenario ==
    /\ Len(positions) = 1
    /\ positions[1].quantity = Q(10)
    /\ positions[1].averagePositionPrice = Q(100)
    /\ C7_Price(positions[1]) = 120
    /\ C7_Balance = 500

\* C7: the portfolio view's aggregates: stocksValue = sum of quantity x
\* current price, totalBuyValue = sum of quantity x average price,
\* portfolioValue = balance + stocksValue, totalProfitAbsolute = stocksValue
\* - totalBuyValue, totalProfitPercent = totalProfitAbsolute /
\* (portfolioValue - totalProfitAbsolute) x 100, or 0 for a zero denominator;
\* 10 shares bought at 100, priced at 120, with balance 500 give 1200, 1000,
\* 1700, 200 and 200/1500 x 100.
C7_Aggregates ==
    (shown # NotCalled /\ shown.view = "portfolio") =>
        /\ shown.stocks_value = C7_StocksValue
        /\ shown.total_buy_value = C7_BuyValue
        /\ shown.portfolio_value = C7_Balance + C7_StocksValue
        /\ shown.total_profit_absolute = C7_StocksValue - C7_BuyValue
        /\ LET denominator == shown.portfolio_value - shown.total_profit_absolute
           IN  IF denominator = 0 THEN shown.total_profit_percent.n = 0
               ELSE /\ shown.total_profit_percent.d # 0
                    /\ shown.total_profit_percent.n * denominator
                          = shown.total_profit_absolute * 100 * shown.total_profit_percent.d
        /\ C7_Scenario =>
              /\ shown.stocks_value = 1200
              /\ shown.total_buy_value = 1000
              /\ shown.portfolio_value = 1700
              /\ shown.total_profit_absolute = 200
              /\ shown.total_profit_percent.n * 1500 = 200 * 100 * shown.total_profit_percent.d

\* C7 witness: the portfolio view was computed for the scenario
C7_Witness ==
    /\ shown # NotCalled
    /\ shown.view = "portfolio"
    /\ C7_Scenario
    /\ shown.portfolio_value = 1700
    /\ shown.total_profit_percent = Ratio(20000, 1500)

(***************************************************************************)
(* The market data gateway (src/utils/api_client.py).                      *)
(* A POST ends with a parsed 2xx body or with an exception of requests:    *)
(* ConnectionError and Timeout from session.post, HTTPError from           *)
(* raise_for_status on a 4xx or 5xx answer.  All three are subclasses of   *)
(* requests.exceptions.RequestException, which is what every operation     *)
(* catches.                                                                *)
(***************************************************************************)
CacheTtl == 30
NoneId == "None"

Transports == {"ok", "ConnectionError", "Timeout", "HTTP4xx", "HTTP5xx"}

\* session.post(...); response.raise_for_status(); response.json()
Post(transport, body) ==
    CASE transport = "ok" -> body
      [] transport = "ConnectionError" -> Raised("ConnectionError")
      [] transport = "Timeout" -> Raised("Timeout")
      [] OTHER -> Raised("HTTPError")

\* except requests.exceptions.RequestException
IsRequestException_OnlyHTTP(e) == e = "HTTPError"

IsRequestException(e) == e \in {"ConnectionError", "Timeout", "HTTPError"}

\* except requests.exceptions.RequestException: return fallback
Caught(r, fallback) == IF IsRequestException(r.e) THEN fallback ELSE r

PyListOf(items) == [t |-> "list", items |-> items]
EmptyList == PyListOf(<<>>)
\* a response body with one list in it: result.get(key, [])
Body(items) == [t |-> "dict", items |-> items]

ListOrEmpty(result) == IF result.items = <<>> THEN EmptyList ELSE PyListOf(result.items)
DictOrNone(result) == IF result.items = <<>> THEN PyNone ELSE result
ItemOrNone(result) == IF result.items = <<>> THEN PyNone ELSE PyStr(result.items[1])
ListOf(result) == PyListOf(result.items)
Same(result) == result

get_accounts(transport, body) ==
    LET result == Post(transport, body)
    IN  IF result.t = "raise" THEN Caught(result, EmptyList) ELSE ListOrEmpty(result)
\* the request without the except clause
get_portfolio_Uncaught(transport, body) == Post(transport, body)

get_portfolio(transport, body) ==
    LET result == Post(transport, body)
    IN  IF result.t = "raise" THEN Caught(result, PyNone) ELSE Same(result)
get_operations(transport, body) ==
    LET result == Post(transport, body)
    IN  IF result.t = "raise" THEN Caught(result, PyNone) ELSE ListOf(result)
get_withdraw_limits(transport, body) ==
    LET result == Post(transport, body)
    IN  IF result.t = "raise" THEN Caught(result, PyNone) ELSE DictOrNone(result)
fetch_shares(transport, body) ==
    LET result == Post(transport, body)
    IN  IF result.t = "raise" THEN Caught(result, EmptyList) ELSE ListOrEmpty(result)
get_share_info(transport, body) ==
    LET result == Post(transport, body)
    IN  IF result.t = "raise" THEN Caught(result, PyNone) ELSE ItemOrNone(result)
get_last_prices(transport, body) ==
    LET result == Post(transport, body)
    IN  IF result.t = "raise" THEN Caught(result, PyNone) ELSE DictOrNone(result)
get_candles(transport, body) ==
    LET result == Post(transport, body)
    IN  IF result.t = "raise" THEN Caught(result, PyNone) ELSE ListOrEmpty(result)

\* raw positions of a portfolio body
Share(figi) == [figi |-> figi, instrumentType |-> "share"]
Bond(figi) == [figi |-> figi, instrumentType |-> "bond"]
Currency(figi) == [figi |-> figi, instrumentType |-> "currency"]

\* a portfolio body: "positions" and "virtualPositions" are lists or missing
Portfolio(positions_, virtual_positions) ==
    [t |-> "portfolio", positions |-> positions_, virtualPositions |-> virtual_positions]
EmptyPortfolio == Portfolio(PyMissing, PyMissing)

\* portfolio.get(key, [])
GetList(value) == IF value = PyMissing THEN <<>> ELSE value.items

IsShare(pos) == pos.instrumentType = "share"

\* pos_with_flag = pos.copy(); pos_with_flag["is_virtual"] = True
WithFlag_Unflagged(pos) == pos

WithFlag(pos) == [figi |-> pos.figi, instrumentType |-> pos.instrumentType, is_virtual |-> TRUE]

\* virtual_shares
VirtualShares(portfolio) ==
    LET shares == SelectSeq(GetList(portfolio.virtualPositions), IsShare)
    IN  [i \in 1..Len(shares) |-> WithFlag(shares[i])]

\* all_shares = shares + virtual_shares
AllShares_VirtualFirst(portfolio) ==
    VirtualShares(portfolio) \o SelectSeq(GetList(portfolio.positions), IsShare)

AllShares(portfolio) ==
    SelectSeq(GetList(portfolio.positions), IsShare) \o VirtualShares(portfolio)

ResultTuple(positions_, portfolio, account_id) ==
    [t |-> "tuple", positions |-> positions_, portfolio |-> portfolio, account_id |-> account_id]

CacheEntry(data, timestamp) == [t |-> "entry", data |-> data, timestamp |-> timestamp]

\* now - timestamp < _cache_ttl
Fresh_Inclusive(now, timestamp) == now - timestamp <= CacheTtl

Fresh(now, timestamp) == now - timestamp < CacheTtl

\* get_portfolio_positions from the cache lookup on, for a resolved account:
\* the result, the cache after the call and what the call did
PositionsOfAccount(cache_, now, account_id, use_cache, transport, body) ==
    LET entry == cache_[account_id]
        found == use_cache /\ entry # NoEntry
        hit == found /\ Fresh(now, entry.timestamp)
        portfolio == get_portfolio(transport, body)
        failed == portfolio.t = "raise" \/ portfolio = PyNone \/ portfolio = EmptyPortfolio
        result == ResultTuple(AllShares(portfolio), portfolio, account_id)
        seen == [account_id |-> account_id, use_cache |-> use_cache, now |-> now,
                 entry_ts |-> IF found THEN entry.timestamp ELSE -1]
    IN  IF hit THEN
            [result |-> entry.data, cache |-> cache_,
             did |-> seen @@ [hit |-> TRUE, fetched |-> FALSE, stored |-> FALSE, failure |-> FALSE]]
        ELSE IF failed THEN
            [result |-> IF portfolio.t = "raise" THEN portfolio
                        ELSE ResultTuple(<<>>, PyNone, account_id),
             cache |-> cache_,
             did |-> seen @@ [hit |-> FALSE, fetched |-> TRUE, stored |-> FALSE,
                              failure |-> transport # "ok"]]
        ELSE
            [result |-> result,
             cache |-> IF use_cache THEN [cache_ EXCEPT ![account_id] = CacheEntry(result, now)]
                       ELSE cache_,
             did |-> seen @@ [hit |-> FALSE, fetched |-> TRUE, stored |-> use_cache,
                              failure |-> FALSE]]

\* get_portfolio_positions(account_id, use_cache): without an account id the
\* first account of get_accounts() is used
get_portfolio_positions(cache_, now, account_id, use_cache, accounts_transport, accounts_body, transport, body) ==
    LET accounts == get_accounts(accounts_transport, accounts_body)
        none == [account_id |-> NoneId, use_cache |-> use_cache, now |-> now, entry_ts |-> -1,
                 hit |-> FALSE, fetched |-> FALSE, stored |-> FALSE,
                 failure |-> accounts_transport # "ok"]
    IN  IF account_id # NoneId
        THEN PositionsOfAccount(cache_, now, account_id, use_cache, transport, body)
        ELSE IF accounts.t = "raise"
        THEN [result |-> accounts, cache |-> cache_, did |-> none]
        ELSE IF accounts.items = <<>>
        THEN [result |-> ResultTuple(<<>>, PyNone, NoneId), cache |-> cache_, did |-> none]
        ELSE LET r == PositionsOfAccount(cache_, now, accounts.items[1], use_cache, transport, body)
             IN  [r EXCEPT !.did.failure = @ \/ accounts_transport # "ok"]

(***************************************************************************)
(* SpecGateway: gateway calls under every transport outcome.               *)
(* issued and stored remember, per account,                                *)
(* the time of the last cached call that issued a portfolio fetch and of   *)
(* the last call that stored its result (clear_cache forgets the latter);  *)
(* last keeps what they were when the last call began.                     *)
(***************************************************************************)
MaxTicks == 2

TickSteps == {1, CacheTtl - 1}

AccountsBodies == {Body(<<>>), Body(<<"a1">>), Body(<<"a2", "a1">>)}
ListBodies == {Body(<<>>), Body(<<"x">>), Body(<<"x", "y">>)}
PortfolioBodies ==
    {EmptyPortfolio,
     Portfolio(PyListOf(<<Share("F1"), Bond("B1")>>), PyMissing),
     Portfolio(PyListOf(<<Bond("B1"), Share("F1")>>),
               PyListOf(<<Currency("C1"), Share("F1"), Share("F2")>>))}

\* what a POST may end with: a 2xx answer with one of the bodies, or a failure
Outcomes(bodies) ==
    {[transport |-> "ok", body |-> b] : b \in bodies}
    \cup {[transport |-> t, body |-> PyNone] : t \in Transports \ {"ok"}}

\* get_portfolio_positions' arguments and, without an account id, what get_accounts ends with
PositionsCalls ==
    {[account_id |-> a, use_cache |-> u, accounts |-> [transport |-> "ok", body |-> PyNone]] :
        a \in Accounts, u \in BOOLEAN}
    \cup {[account_id |-> NoneId, use_cache |-> u, accounts |-> o] :
            u \in BOOLEAN, o \in Outcomes(AccountsBodies)}

GwInit ==
    /\ cache = [a \in Accounts |-> NoEntry]
    /\ clock = 0
    /\ ticks = 0
    /\ issued = [a \in Accounts |-> -1]
    /\ stored = [a \in Accounts |-> -1]
    /\ last = NotCalled
    /\ QuotIdle
    /\ ValIdle
    /\ HistIdle
    /\ SessIdle
    /\ AuthIdle
    /\ LockIdle

Called(op, transport, result) == [op |-> op, failure |-> transport # "ok", result |-> result]

GetAccounts ==
    \E o \in Outcomes(AccountsBodies) :
        /\ last' = Called("get_accounts", o.transport, get_accounts(o.transport, o.body))
        /\ UNCHANGED <<cache, clock, ticks, issued, stored, quotVars, valVars, histVars, sessVars, authVars, lockVars>>

GetPortfolio ==
    \E o \in Outcomes(PortfolioBodies) :
        /\ last' = Called("get_portfolio", o.transport, get_portfolio(o.transport, o.body))
        /\ UNCHANGED <<cache, clock, ticks, issued, stored, quotVars, valVars, histVars, sessVars, authVars, lockVars>>

GetOperations ==
    \E o \in Outcomes(ListBodies) :
        /\ last' = Called("get_operations", o.transport, get_operations(o.transport, o.body))
        /\ UNCHANGED <<cache, clock, ticks, issued, stored, quotVars, valVars, histVars, sessVars, authVars, lockVars>>

GetWithdrawLimits ==
    \E o \in Outcomes(ListBodies) :
        /\ last' = Called("get_withdraw_limits", o.transport, get_withdraw_limits(o.transport, o.body))
        /\ UNCHANGED <<cache, clock, ticks, issued, stored, quotVars, valVars, histVars, sessVars, authVars, lockVars>>

FetchShares ==
    \E o \in Outcomes(ListBodies) :
        /\ last' = Called("fetch_shares", o.transport, fetch_shares(o.transport, o.body))
        /\ UNCHANGED <<cache, clock, ticks, issued, stored, quotVars, valVars, histVars, sessVars, authVars, lockVars>>

GetShareInfo ==
    \E o \in Outcomes(ListBodies) :
        /\ last' = Called("get_share_info", o.transport, get_share_info(o.transport, o.body))
        /\ UNCHANGED <<cache, clock, ticks, issued, stored, quotVars, valVars, histVars, sessVars, authVars, lockVars>>

GetLastPrices ==
    \E o \in Outcomes(ListBodies) :
        /\ last' = Called("get_last_prices", o.transport, get_last_prices(o.transport, o.body))
        /\ UNCHANGED <<cache, clock, ticks, issued, stored, quotVars, valVars, histVars, sessVars, authVars, lockVars>>

GetCandles ==
    \E o \in Outcomes(ListBodies) :
        /\ last' = Called("get_candles", o.transport, get_candles(o.transport, o.body))
        /\ UNCHANGED <<cache, clock, ticks, issued, stored, quotVars, valVars, histVars, sessVars, authVars, lockVars>>

GetPortfolioPositions ==
    /\ \E call \in PositionsCalls, o \in Outcomes(PortfolioBodies) :
          \E r \in {get_portfolio_positions(cache, clock, call.account_id, call.use_cache,
                        call.accounts.transport, call.accounts.body, o.transport, o.body)} :
              /\ cache' = r.cache
              /\ issued' = IF r.did.fetched /\ call.use_cache
                           THEN [issued EXCEPT ![r.did.account_id] = clock] ELSE issued
              /\ stored' = IF r.did.stored THEN [stored EXCEPT ![r.did.account_id] = clock]
                           ELSE stored
              /\ last' = [op |-> "get_portfolio_positions", failure |-> r.did.failure,
                          result |-> r.result, did |-> r.did,
                          issued_before |-> IF r.did.account_id = NoneId THEN -1
                                            ELSE issued[r.did.account_id],
                          stored_before |-> IF r.did.account_id = NoneId THEN -1
                                            ELSE stored[r.did.account_id]]
    /\ UNCHANGED <<clock, ticks, quotVars, valVars, histVars, sessVars, authVars, lockVars>>

\* clear_cache()
ClearCache ==
    /\ cache' = [a \in Accounts |-> NoEntry]
    /\ stored' = [a \in Accounts |-> -1]
    /\ last' = [op |-> "clear_cache", failure |-> FALSE, result |-> PyNone]
    /\ UNCHANGED <<clock, ticks, issued, quotVars, valVars, histVars, sessVars, authVars, lockVars>>

\* time passes
Tick ==
    /\ ticks < MaxTicks
    /\ \E d \in TickSteps : clock' = clock + d
    /\ ticks' = ticks + 1
    /\ UNCHANGED <<cache, issued, stored, last, quotVars, valVars, histVars, sessVars, authVars, lockVars>>

GwNext ==
    \/ GetAccounts \/ GetPortfolio \/ GetOperations \/ GetWithdrawLimits
    \/ FetchShares \/ GetShareInfo \/ GetLastPrices \/ GetCandles
    \/ GetPortfolioPositions \/ ClearCache

SpecGateway == GwInit /\ [][GwNext]_vars

(***************************************************************************)
(* SpecCache: get_portfolio_positions and clear_cache as time passes.      *)
(***************************************************************************)
CacheNext == GetPortfolioPositions \/ ClearCache \/ Tick

SpecCache == GwInit /\ [][CacheNext]_vars

(***************************************************************************)
(* Claims about the gateway.                                               *)
(***************************************************************************)
IsPositionsCall == last # NotCalled /\ last.op = "get_portfolio_positions"

\* a cached call for an account the call could resolve
IsCachedCall == IsPositionsCall /\ last.did.use_cache /\ last.did.account_id # NoneId

\* C1 as stated: a cached call made less than the TTL after a cached call
\* for the same account that issued a portfolio fetch issues no fetch of
\* its own.
C1_OneFetchWithinTtl ==
    (IsCachedCall /\ last.issued_before >= 0 /\ last.did.now - last.issued_before < CacheTtl)
        => ~last.did.fetched

\* C1: when an earlier cached call for the account stored its result and
\* clear_cache has not run since, a cached call made less than 30 s after
\* the store issues no fetch and returns the stored tuple, and one made 30 s
\* or more after it issues a fetch; with nothing stored the call fetches.
C1_CacheRoundTrip ==
    IsCachedCall =>
        LET age == last.did.now - last.stored_before
            entry == cache[last.did.account_id]
        IN  /\ (last.stored_before >= 0 /\ age < 30) =>
                  /\ ~last.did.fetched
                  /\ entry # NoEntry
                  /\ entry.timestamp = last.stored_before
                  /\ last.result = entry.data
            /\ (last.stored_before >= 0 /\ age >= 30) => last.did.fetched
            /\ last.stored_before < 0 => last.did.fetched

\* C1 witness: a call served from an entry stored 29 s earlier
C1_Witness ==
    /\ IsCachedCall
    /\ last.stored_before >= 0
    /\ last.did.now - last.stored_before = 29
    /\ ~last.did.fetched
    /\ last.result.positions # <<>>

C6_Regular == SelectSeq(GetList(last.result.portfolio.positions), IsShare)
C6_Virtual == SelectSeq(GetList(last.result.portfolio.virtualPositions), IsShare)

\* C6: in the list get_portfolio_positions returns, the shares of the raw
\* portfolio's positions come first and carry no is_virtual flag, the shares
\* of its virtualPositions follow and each carries is_virtual = True.
C6_VirtualFlag ==
    (IsPositionsCall /\ last.result.t = "tuple" /\ last.result.portfolio # PyNone) =>
        LET all_shares == last.result.positions
            n == Len(C6_Regular)
        IN  /\ Len(all_shares) = n + Len(C6_Virtual)
            /\ \A i \in 1..Len(all_shares) :
                  IF i <= n
                  THEN /\ "is_virtual" \notin DOMAIN all_shares[i]
                       /\ all_shares[i] = C6_Regular[i]
                  ELSE /\ "is_virtual" \in DOMAIN all_shares[i]
                       /\ all_shares[i].is_virtual = TRUE
                       /\ all_shares[i].figi = C6_Virtual[i - n].figi

\* C6 witness: a result with one regular share followed by two virtual ones
C6_Witness ==
    /\ IsPositionsCall
    /\ last.result.t = "tuple"
    /\ last.result.portfolio # PyNone
    /\ Len(C6_Regular) = 1
    /\ Len(C6_Virtual) = 2
    /\ Len(last.result.positions) = 3

C10_Empty(result) ==
    \/ result = PyNone
    \/ result = EmptyList
    \/ /\ result.t = "tuple"
       /\ result.positions = <<>>
       /\ result.portfolio = PyNone

EmptyDict == [k \in {} |-> 0]
DictSet(d, k, v) == [x \in DOMAIN d \cup {k} |-> IF x = k THEN v ELSE d[x]]
DictDel(d, k) == [x \in DOMAIN d \ {k} |-> d[x]]
DictGet(d, k, default) == IF k \in DOMAIN d THEN d[k] ELSE default

\* The amounts of a ledger as format_quotation returns them, each where the
\* code formats it: a position's quantity, the portfolio's balance, an
\* operation's quantity and payment, a candle's close.  The operators below
\* work on a ledger formatted this way.
FormattedPosition(pos) == [figi |-> pos.figi, quantity |-> Num(pos.quantity)]
FormattedOperation(op) == [op EXCEPT !.quantity = Num(@), !.payment = Num(@)]
FormattedCandle(candle) == [time |-> candle.time, close |-> Num(candle.close)]
FormattedLedger(l) ==
    [current_positions |->
        [i \in 1..Len(l.current_positions) |-> FormattedPosition(l.current_positions[i])],
     portfolio |-> [totalAmountCurrencies |-> Num(l.portfolio.totalAmountCurrencies)],
     operations |-> [i \in 1..Len(l.operations) |-> FormattedOperation(l.operations[i])],
     candles |-> [f \in DOMAIN l.candles
                    |-> [i \in 1..Len(l.candles[f]) |-> FormattedCandle(l.candles[f][i])]]]

\* current_balance
StartBalance(portfolio) == portfolio.totalAmountCurrencies

\* current_stocks[figi] = quantity, position by position
RECURSIVE StartStocks(_)
StartStocks(current_positions) ==
    IF current_positions = <<>> THEN EmptyDict
    ELSE LET pos == current_positions[Len(current_positions)]
         IN  DictSet(StartStocks(SubSeq(current_positions, 1, Len(current_positions) - 1)),
                     pos.figi, pos.quantity)

\* sorted(operations, key=date, reverse=True): descending, equal dates keep their order
\* the list left in its input order
InsertByDate_Unsorted(sorted, op) == sorted \o <<op>>

RECURSIVE InsertByDate(_, _)
InsertByDate(sorted, op) ==
    IF sorted = <<>> THEN <<op>>
    ELSE IF Head(sorted).date >= op.date THEN <<Head(sorted)>> \o InsertByDate(Tail(sorted), op)
    ELSE <<op>> \o sorted

RECURSIVE SortedOperations(_)
SortedOperations(operations) ==
    IF operations = <<>> THEN <<>>
    ELSE InsertByDate(SortedOperations(SubSeq(operations, 1, Len(operations) - 1)),
                      operations[Len(operations)])

BuyTypes == {"OPERATION_TYPE_BUY", "OPERATION_TYPE_BUY_CARD"}
SellTypes == {"OPERATION_TYPE_SELL"}

\* the holdings after one operation is rolled back
RolledBackStocks(op, current_stocks) ==
    LET quantity == Abs(op.quantity)
    IN  IF op.operationType \in BuyTypes THEN
            IF op.figi \in DOMAIN current_stocks
            THEN IF current_stocks[op.figi] - quantity <= 0
                 THEN DictDel(current_stocks, op.figi)
                 ELSE DictSet(current_stocks, op.figi, current_stocks[op.figi] - quantity)
            ELSE current_stocks
        ELSE IF op.operationType \in SellTypes THEN
            DictSet(current_stocks, op.figi, DictGet(current_stocks, op.figi, 0) + quantity)
        ELSE current_stocks

\* the balance after one operation is rolled back
RolledBackBalance(op, current_balance) ==
    LET payment == op.payment
    IN  IF op.operationType \in BuyTypes THEN current_balance - payment
        ELSE IF op.operationType \in SellTypes THEN current_balance + payment
        ELSE current_balance

\* one pass of the loop without the continue for a missing date or figi
RollBack_NoSkip(op, st) ==
    LET stocks == RolledBackStocks(op, st.current_stocks)
        balance == RolledBackBalance(op, st.current_balance)
    IN  [current_stocks |-> stocks,
         current_balance |-> balance,
         stock_history |-> DictSet(st.stock_history, op.date, stocks),
         balance_history |-> DictSet(st.balance_history, op.date, balance)]

\* one pass of the loop over sorted_operations
RollBack(op, st) ==
    IF op.date = 0 \/ op.figi = "" THEN st
    ELSE LET stocks == RolledBackStocks(op, st.current_stocks)
             balance == RolledBackBalance(op, st.current_balance)
         IN  [current_stocks |-> stocks,
              current_balance |-> balance,
              stock_history |-> DictSet(st.stock_history, op.date, stocks),
              balance_history |-> DictSet(st.balance_history, op.date, balance)]

RECURSIVE RollBackAll(_, _)
RollBackAll(sorted_operations, st) ==
    IF sorted_operations = <<>> THEN st
    ELSE RollBackAll(Tail(sorted_operations), RollBack(Head(sorted_operations), st))

\* to_date, later than every operation and candle
ToDate == 4

\* the state when the loop over the operations is done
Replayed(current_positions, portfolio, operations) ==
    RollBackAll(SortedOperations(operations),
                [current_stocks |-> StartStocks(current_positions),
                 current_balance |-> StartBalance(portfolio),
                 stock_history |-> EmptyDict,
                 balance_history |-> DictSet(EmptyDict, ToDate, StartBalance(portfolio))])

\* all_figis: the keys of every snapshot in stock_history
AllFigis(stock_history) == UNION {DOMAIN stock_history[d] : d \in DOMAIN stock_history}

\* {candle["time"]: format_quotation(candle["close"]) for candle in candles if candle["time"]}
RECURSIVE CloseByTime(_)
CloseByTime(candles) ==
    IF candles = <<>> THEN EmptyDict
    ELSE LET candle == candles[Len(candles)]
             before == CloseByTime(SubSeq(candles, 1, Len(candles) - 1))
         IN  IF candle.time = 0 THEN before ELSE DictSet(before, candle.time, candle.close)

\* candles_by_figi: an instrument whose get_candles answer is empty has no key
CandlesByFigi(all_figis, candles) ==
    [figi \in {f \in all_figis : candles[f] # <<>>} |-> CloseByTime(candles[figi])]

\* the snapshot of the latest operation date <= timestamp_str, or the rolled back state
StateAt(st, timestamp_str) ==
    LET dates == {d \in DOMAIN st.stock_history : d <= timestamp_str}
    IN  IF dates = {}
        THEN [stocks |-> st.current_stocks, balance |-> st.current_balance]
        ELSE LET op_date == CHOOSE d \in dates : \A e \in dates : e <= d
             IN  [stocks |-> st.stock_history[op_date], balance |-> st.balance_history[op_date]]

RECURSIVE SumOver(_, _)
SumOver(keys, f) ==
    IF keys = {} THEN 0
    ELSE LET k == CHOOSE x \in keys : TRUE IN f[k] + SumOver(keys \ {k}, f)

\* stocks_value: quantity * price, price 0 where the instrument has no candle at the time
StocksValue(stocks_at_time, candles_by_figi, timestamp_str) ==
    SumOver(DOMAIN stocks_at_time,
            [figi \in DOMAIN stocks_at_time |->
                stocks_at_time[figi]
                    * DictGet(DictGet(candles_by_figi, figi, EmptyDict), timestamp_str, 0)])

\* a candle time that is no ISO 8601 string; as a string it sorts after every date
BadTime == 9

\* datetime.fromisoformat(timestamp_str.replace('Z', '+00:00'))
fromisoformat(timestamp_str) ==
    IF timestamp_str = BadTime THEN Raised("ValueError")
    ELSE [t |-> "datetime", at |-> timestamp_str]

\* the point computed for one timestamp
PointAt(st, candles_by_figi, timestamp_str) ==
    LET at == StateAt(st, timestamp_str)
    IN  [timestamp |-> fromisoformat(timestamp_str).at,
         stocks_at_time |-> at.stocks,
         balance_at_time |-> at.balance,
         value |-> at.balance + StocksValue(at.stocks, candles_by_figi, timestamp_str)]

\* the keys taken greatest first
RECURSIVE Ascending_Descending(_)
Ascending_Descending(times) ==
    IF times = {} THEN <<>>
    ELSE LET greatest == CHOOSE t \in times : \A u \in times : u <= t
         IN  <<greatest>> \o Ascending_Descending(times \ {greatest})

\* sorted(value_by_time.items())
RECURSIVE Ascending(_)
Ascending(times) ==
    IF times = {} THEN <<>>
    ELSE LET least == CHOOSE t \in times : \A u \in times : t <= u
         IN  <<least>> \o Ascending(times \ {least})

History(points) == [t |-> "history", points |-> points]

\* _calculate_history_from_operations; first is list(all_figis)[0], which is
\* whichever instrument the set enumerates first.  With no instrument the
\* subscript raises IndexError and the except clause returns None, and so it
\* does when fromisoformat raises for one of the timestamps.
calculate_history_from_operations(current_positions, portfolio, operations, candles, first) ==
    LET st == Replayed(current_positions, portfolio, operations)
        all_figis == AllFigis(st.stock_history)
        candles_by_figi == CandlesByFigi(all_figis, candles)
        timestamps == Ascending(DOMAIN DictGet(candles_by_figi, first, EmptyDict))
    IN  IF all_figis = {} THEN PyNone
        ELSE IF \E i \in 1..Len(timestamps) : fromisoformat(timestamps[i]).t = "raise" THEN PyNone
        ELSE History([i \in 1..Len(timestamps) |-> PointAt(st, candles_by_figi, timestamps[i])])

\* the instruments list(all_figis)[0] may be
FirstChoices(current_positions, portfolio, operations) ==
    LET all_figis == AllFigis(Replayed(current_positions, portfolio, operations).stock_history)
    IN  IF all_figis = {} THEN {""} ELSE all_figis

\* diff_days = (end - start).days, for a span of whole hours
DiffDays(span_hours) == span_hours \div 24

\* the candle interval chosen for the span
CandleInterval(diff_days) ==
    IF diff_days <= 1 THEN "CANDLE_INTERVAL_HOUR"
    ELSE IF diff_days <= 7 THEN "CANDLE_INTERVAL_HOUR"
    ELSE "CANDLE_INTERVAL_DAY"

\* the states the loop over sorted_operations goes through, the first before any operation
RECURSIVE RollBackStates(_, _)
RollBackStates(sorted_operations, st) ==
    IF sorted_operations = <<>> THEN <<st>>
    ELSE <<st>> \o RollBackStates(Tail(sorted_operations), RollBack(Head(sorted_operations), st))

\* what a call of _calculate_history_from_operations went through
Replay(call, fetch, current_positions, portfolio, operations, span_hours) ==
    [call |-> call, path |-> "operations", fetch |-> fetch, span_hours |-> span_hours,
     interval |-> CandleInterval(DiffDays(span_hours)),
     sorted_operations |-> SortedOperations(operations),
     states |-> RollBackStates(SortedOperations(operations),
                               [current_stocks |-> StartStocks(current_positions),
                                current_balance |-> StartBalance(portfolio),
                                stock_history |-> EmptyDict,
                                balance_history |-> DictSet(EmptyDict, ToDate, StartBalance(portfolio))])]

\* what a call that never reached the roll back went through
NoReplay(call, path, fetch, span_hours) ==
    [call |-> call, path |-> path, fetch |-> fetch, span_hours |-> span_hours, interval |-> "",
     sorted_operations |-> <<>>, states |-> <<>>]

\* _calculate_history_simple: return []
calculate_history_simple(current_positions, portfolio) == History(<<>>)

\* get_portfolio_positions(account_id, use_cache=False) as get_portfolio_history sees it:
\* the shares, no shares in a portfolio that was fetched, or ([], None, account_id)
\* after a failed fetch
Fetches == {"ok", "empty", "failed"}
FetchedPositions(fetch, current_positions) == IF fetch = "ok" THEN current_positions ELSE <<>>
FetchedPortfolio(fetch, portfolio) == IF fetch = "failed" THEN PyNone ELSE portfolio

\* get_portfolio_history: operations is get_operations' answer, None or the list
get_portfolio_history(fetch, current_positions, portfolio, operations, candles, first) ==
    IF FetchedPositions(fetch, current_positions) = <<>> THEN History(<<>>)
    ELSE IF operations = PyNone
    THEN calculate_history_simple(FetchedPositions(fetch, current_positions),
                                  FetchedPortfolio(fetch, portfolio))
    ELSE calculate_history_from_operations(FetchedPositions(fetch, current_positions),
                                           FetchedPortfolio(fetch, portfolio),
                                           operations.items, candles, first)

\* the path get_portfolio_history takes
HistoryReplay(call, fetch, current_positions, portfolio, operations, span_hours) ==
    IF FetchedPositions(fetch, current_positions) = <<>> THEN NoReplay(call, "no_positions", fetch, span_hours)
    ELSE IF operations = PyNone THEN NoReplay(call, "simple", fetch, span_hours)
    ELSE Replay(call, fetch, current_positions, portfolio, operations.items, span_hours)

\* the value of the first point, and 0 where there is none
ValueOfLast_FirstOrZero(history_) ==
    IF history_ # PyNone /\ Len(history_.points) > 0
    THEN PyFloat(history_.points[1].value, 0)
    ELSE PyFloat(0, 0)

\* get_portfolio_value_yesterday, from the history it was given
ValueOfLast(history_) ==
    IF history_ # PyNone /\ Len(history_.points) > 0
    THEN PyFloat(history_.points[Len(history_.points)].value, 0)
    ELSE PyNone

(***************************************************************************)
(* SpecHistory: one call of a history operation for every small ledger.    *)
(***************************************************************************)
MaxOps == 2

HistFigis == {"F1", "F2"}

Position(figi, n) == [figi |-> figi, quantity |-> Q(n)]
PositionInputs ==
    {<<Position("F2", 5)>>,
     <<Position("F1", 1), Position("F2", 5)>>,
     <<Position("F1", 1), Position("F2", 10)>>}

Operation(date, type, figi) ==
    [date |-> date, operationType |-> type, figi |-> figi, quantity |-> PyInt(5),
     payment |-> Q(500)]
\* the same with the payment signed as money leaving the account
Debit(op) == [op EXCEPT !.payment = Q(-500)]
\* the types of the trades; a dividend, a purchase by card without a figi and
\* a sale without a date are added below
OperationTypes == {"OPERATION_TYPE_BUY", "OPERATION_TYPE_SELL"}
Operations ==
    {Operation(d, type, f) : d \in {1, 2}, type \in OperationTypes, f \in HistFigis}
    \cup {Operation(d, "OPERATION_TYPE_DIVIDEND", "F1") : d \in {1, 2}}
    \cup {Operation(0, "OPERATION_TYPE_SELL", "F1"), Operation(2, "OPERATION_TYPE_BUY_CARD", "")}
    \cup {Debit(Operation(2, "OPERATION_TYPE_BUY", "F2")),
          Debit(Operation(1, "OPERATION_TYPE_BUY_CARD", "F1"))}
OperationInputs == UNION {[1..n -> Operations] : n \in 0..MaxOps}

Close(figi, time) == IF figi = "F1" THEN 10 + time ELSE 100 + 10 * time
Candle(figi, time) == [time |-> time, close |-> Q(Close(figi, time))]
\* what get_candles may answer for an instrument: nothing, candles in the
\* order of time, candles out of order with one time answered twice and, for
\* the first instrument, a candle without a time and one whose time is no date
CandlesOf(figi) ==
    {<<>>,
     <<Candle(figi, 1), Candle(figi, 2), Candle(figi, 3)>>,
     <<Candle(figi, 3), Candle(figi, 1), Candle(figi, 3)>>}
    \cup (IF figi = "F1" THEN {<<Candle(figi, 1), Candle(figi, 0), Candle(figi, BadTime)>>}
          ELSE {})
CandleInputs ==
    {[figi \in HistFigis |-> IF figi = "F1" THEN c1 ELSE c2] :
        c1 \in CandlesOf("F1"), c2 \in CandlesOf("F2")}

\* to_date - from_date, in hours
SpanHours == {24, 48, 192}

\* a call of get_portfolio_history: what its portfolio fetch ends with, what
\* get_operations answers when it is asked (None, or the operations of the
\* ledger) and, when the roll back is reached, the span of [from_date, to_date]
HistoryCalls ==
    {[fetch |-> f, answered |-> FALSE, span_hours |-> 24] : f \in Fetches}
    \cup {[fetch |-> "ok", answered |-> TRUE, span_hours |-> h] : h \in SpanHours}

\* get_operations' answer in a call
OperationsAnswer(call, book) == IF call.answered THEN PyListOf(book.operations) ELSE PyNone

\* the instruments list(all_figis)[0] may be, when the call gets there
FirstOf(call, book) ==
    IF call.fetch = "ok" /\ call.answered
    THEN FirstChoices(book.current_positions, book.portfolio, book.operations)
    ELSE {""}

HistInit ==
    /\ ledger \in [current_positions : PositionInputs,
                   portfolio : {[totalAmountCurrencies |-> Q(1000)]},
                   operations : OperationInputs,
                   candles : CandleInputs]
    /\ history = NotCalled
    /\ replay = NotCalled
    /\ value_yesterday = NotCalled
    /\ QuotIdle
    /\ ValIdle
    /\ GwIdle
    /\ SessIdle
    /\ AuthIdle
    /\ LockIdle

CalculateHistoryFromOperations ==
    /\ history = NotCalled
    /\ \E book \in {FormattedLedger(ledger)} :
          /\ \E first \in FirstChoices(book.current_positions, book.portfolio, book.operations) :
                history' = calculate_history_from_operations(
                              book.current_positions, book.portfolio, book.operations,
                              book.candles, first)
          /\ \E span_hours \in SpanHours :
                replay' = Replay("_calculate_history_from_operations", "ok",
                                 book.current_positions, book.portfolio, book.operations,
                                 span_hours)
    /\ value_yesterday' = NotCalled
    /\ UNCHANGED <<ledger, quotVars, valVars, gwVars, sessVars, authVars, lockVars>>

GetPortfolioHistory ==
    /\ history = NotCalled
    /\ \E book \in {FormattedLedger(ledger)}, call \in HistoryCalls :
          /\ \E first \in FirstOf(call, book) :
                history' = get_portfolio_history(call.fetch, book.current_positions,
                                                 book.portfolio, OperationsAnswer(call, book),
                                                 book.candles, first)
          /\ replay' = HistoryReplay("get_portfolio_history", call.fetch,
                                     book.current_positions, book.portfolio,
                                     OperationsAnswer(call, book), call.span_hours)
    /\ value_yesterday' = NotCalled
    /\ UNCHANGED <<ledger, quotVars, valVars, gwVars, sessVars, authVars, lockVars>>

\* get_portfolio_value_yesterday: the history is asked for the day before today
GetPortfolioValueYesterday ==
    /\ history = NotCalled
    /\ \E book \in {FormattedLedger(ledger)}, call \in {c \in HistoryCalls : c.span_hours = 24} :
          /\ \E first \in FirstOf(call, book) :
                /\ history' = get_portfolio_history(call.fetch, book.current_positions,
                                                    book.portfolio, OperationsAnswer(call, book),
                                                    book.candles, first)
                /\ value_yesterday' = ValueOfLast(history')
          /\ replay' = HistoryReplay("get_portfolio_value_yesterday", call.fetch,
                                     book.current_positions, book.portfolio,
                                     OperationsAnswer(call, book), call.span_hours)
    /\ UNCHANGED <<ledger, quotVars, valVars, gwVars, sessVars, authVars, lockVars>>

HistNext ==
    \/ CalculateHistoryFromOperations
    \/ GetPortfolioHistory
    \/ GetPortfolioValueYesterday

SpecHistory == HistInit /\ [][HistNext]_vars

(***************************************************************************)
(* Claims about the history.                                               *)
(***************************************************************************)
C2_Held == StartStocks(FormattedLedger(ledger).current_positions)
C2_Times == UNION {{c[i].time : i \in 1..Len(c)} : c \in {ledger.candles[f] : f \in DOMAIN C2_Held}}
C2_Price(figi, time) ==
    IF \E i \in 1..Len(ledger.candles[figi]) : ledger.candles[figi][i].time = time
    THEN Close(figi, time) ELSE 0

\* C2: with an empty operations list and positions held, the reconstruction
\* returns a point for every candle timestamp, valued at the current cash
\* plus the current quantities times the closes at that timestamp.
C2_FlatWithoutOperations ==
    (history # NotCalled /\ replay.path = "operations" /\ ledger.operations = <<>>) =>
        /\ history.t = "history"
        /\ \A time \in C2_Times :
              \E i \in 1..Len(history.points) :
                  /\ history.points[i].timestamp = time
                  /\ history.points[i].value
                        = 1000 + SumOver(DOMAIN C2_Held,
                                         [f \in DOMAIN C2_Held |-> C2_Held[f] * C2_Price(f, time)])

C3_Buy == Operation(2, "OPERATION_TYPE_BUY", "F2")

\* C3: with holdings F2 = 5 and the single operation a BUY of 5 F2 with
\* payment 500, the replay gives every timestamp before the operation
\* holdings without F2 and a cash balance 500 above the current cash.
C3_BuyRolledBack ==
    (/\ history # NotCalled
     /\ replay.path = "operations"
     /\ C2_Held["F2"] = 5
     /\ ledger.operations = <<C3_Buy>>) =>
        /\ history.t = "history"
        /\ \A i \in 1..Len(history.points) :
              history.points[i].timestamp < C3_Buy.date =>
                  /\ "F2" \notin DOMAIN history.points[i].stocks_at_time
                  /\ history.points[i].balance_at_time = 1000 + 500

\* C11: when get_operations answers None, get_portfolio_history returns the
\* constant-holdings series (a point per candle timestamp: the current cash
\* plus the current quantities times the closes) and marks it as degraded.
C11_FallbackSeries ==
    (replay # NotCalled /\ replay.call = "get_portfolio_history" /\ replay.path = "simple") =>
        /\ history.t = "history"
        /\ "degraded" \in DOMAIN history
        /\ \A time \in C2_Times :
              \E i \in 1..Len(history.points) :
                  /\ history.points[i].timestamp = time
                  /\ history.points[i].value
                        = 1000 + SumOver(DOMAIN C2_Held,
                                         [f \in DOMAIN C2_Held |-> C2_Held[f] * C2_Price(f, time)])

\* the roll back of the last call reversed operation i: it has a date and a figi
Reversed(i) == replay.sorted_operations[i].date # 0 /\ replay.sorted_operations[i].figi # ""

\* the holdings of every instrument but figi are the same in both states
SameButFor(figi, before, after) ==
    /\ DOMAIN after \ {figi} = DOMAIN before \ {figi}
    /\ \A f \in DOMAIN before \ {figi} : after[f] = before[f]

\* C12: reversing a SELL of quantity q with payment p for instrument f turns
\* holdings[f] into holdings[f] + q (0 + q when f was absent), leaves the
\* other holdings alone and turns the cash into cash - p.
C12_SellReversed ==
    (replay # NotCalled /\ replay.path = "operations") =>
        \A i \in 1..Len(replay.sorted_operations) :
            LET op == replay.sorted_operations[i]
                before == replay.states[i]
                after == replay.states[i + 1]
            IN  (Reversed(i) /\ op.operationType = "OPERATION_TYPE_SELL") =>
                    /\ op.figi \in DOMAIN after.current_stocks
                    /\ after.current_stocks[op.figi]
                          = DictGet(before.current_stocks, op.figi, 0) + Abs(op.quantity)
                    /\ SameButFor(op.figi, before.current_stocks, after.current_stocks)
                    /\ after.current_balance = before.current_balance - op.payment

\* C13: reversing a BUY or BUY_CARD of quantity q for instrument f subtracts
\* q from holdings[f], removes the entry when the result is <= 0, leaves the
\* other holdings alone and makes the cash higher by the amount paid.
C13_BuyReversed ==
    (replay # NotCalled /\ replay.path = "operations") =>
        \A i \in 1..Len(replay.sorted_operations) :
            LET op == replay.sorted_operations[i]
                before == replay.states[i]
                after == replay.states[i + 1]
                left == DictGet(before.current_stocks, op.figi, 0) - Abs(op.quantity)
            IN  (Reversed(i)
                 /\ op.operationType \in {"OPERATION_TYPE_BUY", "OPERATION_TYPE_BUY_CARD"}) =>
                    /\ IF left <= 0 THEN op.figi \notin DOMAIN after.current_stocks
                       ELSE /\ op.figi \in DOMAIN after.current_stocks
                            /\ after.current_stocks[op.figi] = left
                    /\ SameButFor(op.figi, before.current_stocks, after.current_stocks)
                    /\ after.current_balance = before.current_balance + Abs(op.payment)

C14_Operations == FormattedLedger(ledger).operations
C14_Count(op, operations) == Cardinality({i \in 1..Len(operations) : operations[i] = op})

\* C14: the roll back goes through the operations it was given, each once,
\* in descending order of their dates: an operation dated later than another
\* is reversed before it, whatever the order of the input list.
C14_DescendingOrder ==
    (replay # NotCalled /\ replay.path = "operations") =>
        \E given \in {FormattedLedger(ledger).operations} :
            /\ Len(replay.sorted_operations) = Len(given)
            /\ \A i \in 1..Len(given) :
                  C14_Count(given[i], replay.sorted_operations) = C14_Count(given[i], given)
            /\ \A i, j \in 1..Len(replay.sorted_operations) :
                  replay.sorted_operations[i].date > replay.sorted_operations[j].date => i < j

\* C14 witness: a list given oldest first was reversed newest first
C14_Witness ==
    /\ replay # NotCalled
    /\ replay.path = "operations"
    /\ Len(C14_Operations) = 2
    /\ C14_Operations[1].date < C14_Operations[2].date
    /\ Reversed(1)
    /\ Reversed(2)
    /\ replay.sorted_operations = <<C14_Operations[2], C14_Operations[1]>>
    /\ Len(replay.states) = 3

\* the state the roll back started from, with the operations dated after time reversed
C15_StateAt(time) ==
    RollBackAll(SelectSeq(replay.sorted_operations, LAMBDA op : op.date > time), replay.states[1])

\* C15: the holdings and the cash used to value a candle timestamp T are the
\* current state with every operation dated after T reversed and no
\* operation dated at or before T reversed.
C15_SnapshotWindow ==
    (replay # NotCalled /\ replay.path = "operations" /\ history # PyNone) =>
        \A i \in 1..Len(history.points) :
            /\ history.points[i].stocks_at_time
                  = C15_StateAt(history.points[i].timestamp).current_stocks
            /\ history.points[i].balance_at_time
                  = C15_StateAt(history.points[i].timestamp).current_balance

\* C16: the candle interval is hourly when [from, to] spans at most one day
\* and daily when it spans more than one day.
C16_IntervalOfSpan ==
    (replay # NotCalled /\ replay.path = "operations") =>
        replay.interval = IF replay.span_hours <= 24 THEN "CANDLE_INTERVAL_HOUR"
                          ELSE "CANDLE_INTERVAL_DAY"

\* C17: every non-empty series get_portfolio_history returns is strictly
\* ascending by timestamp, so no candle timestamp has two points, and every
\* point stands at the time of a candle.
C17_StrictlyAscending ==
    (history # NotCalled /\ history # PyNone /\ replay.call # "_calculate_history_from_operations") =>
        /\ \A i, j \in 1..Len(history.points) :
              i < j => history.points[i].timestamp < history.points[j].timestamp
        /\ \A i \in 1..Len(history.points) :
              history.points[i].timestamp
                 \in UNION {{ledger.candles[f][k].time : k \in 1..Len(ledger.candles[f])} :
                               f \in HistFigis}

\* a series of get_portfolio_history made of candles answered out of order,
\* one of them twice
C17_Witness ==
    /\ history # NotCalled
    /\ history # PyNone
    /\ replay.call = "get_portfolio_history"
    /\ Len(history.points) = 2
    /\ \E f \in HistFigis : Len(ledger.candles[f]) = 3 /\ ledger.candles[f][1].time = 3

\* C18: get_portfolio_value_yesterday returns the value of the last point of
\* the history of the day before today; when that history is None or has no
\* point it returns None, never 0, and it never raises.
C18_LastPointOrNone ==
    (replay # NotCalled /\ replay.call = "get_portfolio_value_yesterday") =>
        /\ replay.span_hours = 24
        /\ value_yesterday.t # "raise"
        /\ IF history # PyNone /\ Len(history.points) > 0
           THEN value_yesterday = PyFloat(history.points[Len(history.points)].value, 0)
           ELSE value_yesterday = PyNone

\* the value of the last of several points with different values was returned
C18_Witness ==
    /\ replay # NotCalled
    /\ replay.call = "get_portfolio_value_yesterday"
    /\ history # PyNone
    /\ Len(history.points) = 3
    /\ history.points[1].value # history.points[3].value
    /\ value_yesterday = PyFloat(history.points[3].value, 0)

\* what get_portfolio_history returns for a portfolio that was fetched and holds no share
C19_EmptyPortfolioOutcome ==
    LET book == FormattedLedger(ledger)
    IN  get_portfolio_history("empty", book.current_positions, book.portfolio,
                              PyListOf(book.operations), book.candles, "")

\* C19: a failed portfolio fetch gives get_portfolio_history's caller an
\* outcome that differs from the outcome for a confirmed-empty portfolio.
C19_FailedFetchDiffers ==
    (replay # NotCalled /\ replay.call = "get_portfolio_history" /\ replay.fetch = "failed") =>
        history # C19_EmptyPortfolioOutcome

(***************************************************************************)
(* SpecSession: threads calling get_session concurrently.  A step is one   *)
(* line of get_session run by one thread; the threads interleave freely.   *)
(***************************************************************************)
MaxCalls == 2

\* requests.Session(): object number id
Session(id) == [t |-> "Session", id |-> id]

\* the locked check left out
DoubleCheck_Skipped(session_) == TRUE

\* line 62, under the lock: if _session is None
DoubleCheck(session_) == session_ = PyNone

\* what a caller holds after return _session: the object and the headers it has then
Returned(session_, objects_) ==
    [session |-> session_,
     headers |-> IF session_ = PyNone THEN "" ELSE objects_[session_.id]]

SessInit ==
    /\ SessIdle
    /\ AuthIdle
    /\ LockIdle
    /\ QuotIdle
    /\ ValIdle
    /\ GwIdle
    /\ HistIdle

\* a call starts; line 59: if _session is None
CheckSession(t) ==
    /\ pc[t] = "idle"
    /\ Len(returned[t]) < MaxCalls
    /\ IF session = PyNone
       THEN pc' = [pc EXCEPT ![t] = "lock"] /\ seen_none' = seen_none \cup {t}
       ELSE pc' = [pc EXCEPT ![t] = "return"] /\ UNCHANGED seen_none
    /\ UNCHANGED <<session, session_lock, objects, returned, quotVars, valVars, gwVars, histVars, authVars, lockVars>>

\* line 60: with _session_lock, which blocks while another thread holds the lock
AcquireLock(t) ==
    /\ pc[t] = "lock"
    /\ session_lock = NoThread
    /\ session_lock' = t
    /\ pc' = [pc EXCEPT ![t] = "check"]
    /\ UNCHANGED <<session, objects, seen_none, returned, quotVars, valVars, gwVars, histVars, authVars, lockVars>>

\* line 62: the check repeated under the lock
CheckLocked(t) ==
    /\ pc[t] = "check"
    /\ pc' = [pc EXCEPT ![t] = IF DoubleCheck(session) THEN "construct" ELSE "release"]
    /\ UNCHANGED <<session, session_lock, objects, seen_none, returned, quotVars, valVars, gwVars, histVars, authVars, lockVars>>

\* line 63: _session = requests.Session(), a new object with the default headers
ConstructSession(t) ==
    /\ pc[t] = "construct"
    /\ objects' = Append(objects, "default")
    /\ session' = Session(Len(objects) + 1)
    /\ pc' = [pc EXCEPT ![t] = "update"]
    /\ UNCHANGED <<session_lock, seen_none, returned, quotVars, valVars, gwVars, histVars, authVars, lockVars>>

\* lines 64-67: _session.headers.update(...), on the object _session refers to
UpdateHeaders(t) ==
    /\ pc[t] = "update"
    /\ objects' = [objects EXCEPT ![session.id] = "authorized"]
    /\ pc' = [pc EXCEPT ![t] = "release"]
    /\ UNCHANGED <<session, session_lock, seen_none, returned, quotVars, valVars, gwVars, histVars, authVars, lockVars>>

\* the end of the with block
ReleaseLock(t) ==
    /\ pc[t] = "release"
    /\ session_lock' = NoThread
    /\ pc' = [pc EXCEPT ![t] = "return"]
    /\ UNCHANGED <<session, objects, seen_none, returned, quotVars, valVars, gwVars, histVars, authVars, lockVars>>

\* line 69: return _session
ReturnSession(t) ==
    /\ pc[t] = "return"
    /\ returned' = [returned EXCEPT ![t] = Append(@, Returned(session, objects))]
    /\ pc' = [pc EXCEPT ![t] = "idle"]
    /\ UNCHANGED <<session, session_lock, objects, seen_none, quotVars, valVars, gwVars, histVars, authVars, lockVars>>

SessNext ==
    \E t \in Threads :
        \/ CheckSession(t)
        \/ AcquireLock(t)
        \/ CheckLocked(t)
        \/ ConstructSession(t)
        \/ UpdateHeaders(t)
        \/ ReleaseLock(t)
        \/ ReturnSession(t)

SpecSession == SessInit /\ [][SessNext]_vars

\* C20: under every interleaving of concurrent get_session calls at most one
\* session object is ever constructed, and every call returns that object.
C20_OneSession ==
    /\ Len(objects) <= 1
    /\ \A t \in Threads : \A i \in 1..Len(returned[t]) : returned[t][i].session = Session(1)

\* two threads found _session None at the unlocked check, and both have returned
C20_Witness ==
    /\ Cardinality(seen_none) >= 2
    /\ \A t \in seen_none : Len(returned[t]) >= 1
    /\ Len(objects) = 1

(***************************************************************************)
(* Claims about what get_portfolio_positions leaves in the cache.          *)
(***************************************************************************)
\* C22: every call that is not served from the cache (a miss, an expired
\* entry, or a call that bypasses the cache) and whose fetch gave a
\* portfolio leaves, as the entry of its account, the tuple it returns with
\* the time of the call.
C22_OverwrittenOnFetch ==
    (/\ IsPositionsCall
     /\ last.did.account_id # NoneId
     /\ ~last.did.hit
     /\ last.result.t = "tuple"
     /\ last.result.portfolio # PyNone) =>
        cache[last.did.account_id] = CacheEntry(last.result, last.did.now)

\* C26: a get_portfolio_positions call whose portfolio request fails returns
\* ([], None, accountId) and leaves the cache as it was: nothing is stored,
\* and an entry the account had is neither removed nor refreshed.
C26_FailureLeavesCache ==
    [][(/\ last' # NotCalled
        /\ last'.op = "get_portfolio_positions"
        /\ last'.did.account_id # NoneId
        /\ last'.did.fetched
        /\ last'.failure) =>
            /\ last'.result = ResultTuple(<<>>, PyNone, last'.did.account_id)
            /\ ~last'.did.stored
            /\ cache' = cache]_vars

\* a failed fetch of a call that bypassed the cache or found its entry
\* expired, with the entry still there
C26_Witness ==
    /\ IsPositionsCall
    /\ last.did.account_id # NoneId
    /\ last.did.fetched
    /\ last.failure
    /\ last.result = ResultTuple(<<>>, PyNone, last.did.account_id)
    /\ cache[last.did.account_id] # NoEntry
    /\ cache[last.did.account_id].timestamp < last.did.now

\* C27: every session object a caller of get_session receives already
\* carries the Authorization and Content-Type headers.
C27_HeadersSetOnReturn ==
    \A t \in Threads : \A i \in 1..Len(returned[t]) : returned[t][i].headers = "authorized"

\* C29: in the backward replay an operation whose type is not BUY, BUY_CARD
\* or SELL, and an operation with a missing date or figi, leaves the
\* holdings and the cash balance unchanged; an operation with a missing
\* date or figi also records no snapshot.
C29_OtherOperationsFrame ==
    (replay # NotCalled /\ replay.path = "operations") =>
        \A i \in 1..Len(replay.sorted_operations) :
            LET op == replay.sorted_operations[i]
                before == replay.states[i]
                after == replay.states[i + 1]
                traded == op.operationType \in {"OPERATION_TYPE_BUY", "OPERATION_TYPE_BUY_CARD",
                                                "OPERATION_TYPE_SELL"}
            IN  /\ (~traded \/ ~Reversed(i)) =>
                      /\ after.current_stocks = before.current_stocks
                      /\ after.current_balance = before.current_balance
                /\ ~Reversed(i) =>
                      /\ after.stock_history = before.stock_history
                      /\ after.balance_history = before.balance_history

\* a replay of a dated dividend and of a sale without a date
C29_Witness ==
    /\ replay # NotCalled
    /\ replay.path = "operations"
    /\ Len(replay.sorted_operations) = 2
    /\ replay.sorted_operations[1].operationType = "OPERATION_TYPE_DIVIDEND"
    /\ Reversed(1)
    /\ replay.sorted_operations[2].operationType = "OPERATION_TYPE_SELL"
    /\ ~Reversed(2)
    /\ replay.states[3].current_stocks = replay.states[1].current_stocks
    /\ DOMAIN replay.states[3].stock_history = {replay.sorted_operations[1].date}

\* the series the last call would have computed had the set of instruments
\* enumerated first_ first
C30_HistoryWith(first_) ==
    LET book == FormattedLedger(ledger)
    IN  calculate_history_from_operations(book.current_positions, book.portfolio,
                                          book.operations, book.candles, first_)

\* C30: for the same positions, cash, operations and candles the series does
\* not depend on which instrument is first in the set of instruments.
C30_SameForEveryFirst ==
    (replay # NotCalled /\ replay.path = "operations") =>
        LET book == FormattedLedger(ledger)
        IN  \A first_ \in FirstChoices(book.current_positions, book.portfolio, book.operations) :
                history = C30_HistoryWith(first_)

(***************************************************************************)
(* Claims about the price a position is valued at.                         *)
(***************************************************************************)
\* C23: the position view values a position at the price the portfolio
\* view and its keyboard value it at, for the same position and prices.
C23_SamePriceInEveryView ==
    (shown # NotCalled /\ shown.view = "position") =>
        \A i \in 1..Len(positions) :
            positions[i].figi = shown.figi =>
                shown.current_price = ViewPrice(prices_data, positions[i])

\* the well-formed candles of an answer: those with a time that is a date
C24_WellFormed(candles) == SelectSeq(candles, LAMBDA c : c.time # 0 /\ c.time # BadTime)

\* C24: a malformed candle (no time, or a time that is no date) is skipped on
\* its own: the series is the one computed from the well-formed candles.
C24_MalformedCandleSkipped ==
    (replay # NotCalled /\ replay.path = "operations") =>
        LET book == FormattedLedger(ledger)
            wellformed == [f \in DOMAIN book.candles |-> C24_WellFormed(book.candles[f])]
        IN  \E first_ \in FirstChoices(book.current_positions, book.portfolio, book.operations) :
                history = calculate_history_from_operations(
                              book.current_positions, book.portfolio, book.operations,
                              wellformed, first_)

(***************************************************************************)
(* SpecAuth: the bot's handlers (bot.py) serving messages and callbacks of *)
(* two users.  A string is the sequence of its characters.  The program    *)
(* keeps no record of who passed phone_handler: authenticated is the       *)
(* record an observer would keep.                                          *)
(***************************************************************************)
Digits == {"0", "1", "2", "3", "4", "5", "6", "7", "8", "9"}

\* normalize_phone_number: digits and + kept, one leading + dropped, a
\* leading 8 of an 11-digit number replaced by 7
normalize_phone_number(phone_number) ==
    IF phone_number = <<>> THEN <<>>
    ELSE LET cleaned == SelectSeq(phone_number, LAMBDA c : c \in Digits \cup {"+"})
             unsigned == IF cleaned # <<>> /\ Head(cleaned) = "+" THEN Tail(cleaned) ELSE cleaned
         IN  IF unsigned # <<>> /\ Head(unsigned) = "8" /\ Len(unsigned) = 11
             THEN <<"7">> \o Tail(unsigned)
             ELSE unsigned

\* phone_handler up to its answer: which branch a contact message takes
phone_handler(contact, allowed) ==
    IF contact = PyNone THEN "use_button"
    ELSE IF normalize_phone_number(allowed) = <<>> THEN "config_error"
    ELSE IF normalize_phone_number(contact.phone_number) = normalize_phone_number(allowed)
    THEN "granted"
    ELSE "denied"

\* the branch of stock_handler a callback's data takes, "" for none
Branch(data) ==
    CASE data = "view_stocks" -> "view_stocks"
      [] data \in {"portfolio_select::F1"} -> "portfolio_select"
      [] data \in {"balance_dynamics::1w"} -> "balance_dynamics"
      [] data \in {"stock_dynamics::F1::1w"} -> "stock_dynamics"
      [] OTHER -> ""

\* the gateway operations a branch of stock_handler calls whatever they answer
BrokerageCalls(branch) ==
    CASE branch = "view_stocks" -> {"get_portfolio_positions"}
      [] branch = "portfolio_select" -> {"get_portfolio_positions"}
      [] branch = "balance_dynamics" -> {"get_portfolio_positions"}
      [] branch = "stock_dynamics" -> {"get_share_info", "get_candles"}
      [] OTHER -> {}

PhoneSettings == {<<"+", "7", " ", "(", "9", "1", "2", ")", " ", "3", "4", "5", "-", "6", "7", "-", "8", "9">>, <<"n", "/", "a">>}
Contact(phone_number) == [phone_number |-> phone_number]
ContactInputs ==
    {PyNone, Contact(<<>>), Contact(<<"7", "9", "1", "2", "3", "4", "5", "6", "7", "8", "9">>), Contact(<<"8", " ", "9", "1", "2", " ", "3", "4", "5", " ", "6", "7", " ", "8", "9">>), Contact(<<"+", "7", "9", "1", "2", "3", "4", "5", "6", "7", "8", "0">>)}
CallbackData ==
    {"view_stocks", "portfolio_select::F1", "balance_dynamics::1w", "stock_dynamics::F1::1w",
     "noop"}

AuthInit ==
    /\ PHONE \in PhoneSettings
    /\ authenticated = {}
    /\ api_calls = [u \in Users |-> {}]
    /\ replies = [u \in Users |-> "none"]
    /\ QuotIdle
    /\ ValIdle
    /\ GwIdle
    /\ HistIdle
    /\ SessIdle
    /\ LockIdle

\* bot.py start: /start
StartCommand(u) ==
    /\ replies' = [replies EXCEPT ![u] = "share_contact"]
    /\ UNCHANGED <<PHONE, authenticated, api_calls, quotVars, valVars, gwVars, histVars, sessVars, lockVars>>

\* bot.py phone: a message of content type contact; on a match the portfolio
\* is shown at once through handle_stock_callback with data "view_stocks"
ContactMessage(u) ==
    \E contact \in ContactInputs :
        LET answer == phone_handler(contact, PHONE)
        IN  /\ authenticated' = IF answer = "granted" THEN authenticated \cup {u}
                                ELSE authenticated
            /\ api_calls' = IF answer = "granted"
                            THEN [api_calls EXCEPT ![u] = @ \cup BrokerageCalls("view_stocks")]
                            ELSE api_calls
            /\ replies' = [replies EXCEPT ![u] = IF answer = "granted" THEN "view_stocks"
                                                 ELSE answer]
            /\ UNCHANGED <<PHONE, quotVars, valVars, gwVars, histVars, sessVars, lockVars>>

\* bot.py callback_handler: every callback query goes to handle_stock_callback
CallbackQuery(u) ==
    \E data \in CallbackData :
        /\ api_calls' = [api_calls EXCEPT ![u] = @ \cup BrokerageCalls(Branch(data))]
        /\ replies' = [replies EXCEPT ![u] = IF Branch(data) = "" THEN @ ELSE Branch(data)]
        /\ UNCHANGED <<PHONE, authenticated, quotVars, valVars, gwVars, histVars, sessVars, lockVars>>

\* bot.py handle_all_messages: any other message
OtherMessage(u) ==
    /\ replies' = [replies EXCEPT ![u] = "unknown_command"]
    /\ UNCHANGED <<PHONE, authenticated, api_calls, quotVars, valVars, gwVars, histVars, sessVars, lockVars>>

AuthNext ==
    \E u \in Users :
        \/ StartCommand(u)
        \/ ContactMessage(u)
        \/ CallbackQuery(u)
        \/ OtherMessage(u)

SpecAuth == AuthInit /\ [][AuthNext]_vars

\* C25: the bot calls the brokerage API only while serving a user who has
\* passed phone authentication (a phone_handler call whose normalized
\* contact number equalled the normalized allowed number).
C25_AuthenticatedBeforeData ==
    \A u \in Users : api_calls[u] # {} => u \in authenticated

(***************************************************************************)
(* SpecCacheThreads: threads calling get_portfolio_positions(account_id,   *)
(* use_cache) and clear_cache concurrently as time passes.  A step of a    *)
(* thread is a lock operation, a cache access or the portfolio request.    *)
(***************************************************************************)
\* the steps at which a thread reads or writes _cache
CacheAccesses == {"lookup", "store", "clear"}

\* where a call goes after reading the clock, with the lookup outside the lock
AfterBegin_Unlocked(use_cache) == IF use_cache THEN "lookup" ELSE "fetch"

\* lines 244-245: if use_cache: with _cache_lock
AfterBegin(use_cache) == IF use_cache THEN "lookup_lock" ELSE "fetch"

\* lines 279-280: if use_cache: with _cache_lock
AfterFetch(use_cache) == IF use_cache THEN "store_lock" ELSE "return"

\* what the portfolio request of a call may end with
FetchOutcomes ==
    {[transport |-> "ok", body |-> Portfolio(PyListOf(<<Share("F1")>>), PyMissing)],
     [transport |-> "Timeout", body |-> PyNone]}

ThreadsInit ==
    /\ cache = [a \in Accounts |-> NoEntry]
    /\ clock = 0
    /\ ticks = 0
    /\ issued = [a \in Accounts |-> -1]
    /\ stored = [a \in Accounts |-> -1]
    /\ last = NotCalled
    /\ LockIdle
    /\ QuotIdle
    /\ ValIdle
    /\ HistIdle
    /\ SessIdle
    /\ AuthIdle

\* get_portfolio_positions(account_id, use_cache) up to now = time.time() (line 242)
BeginPositions(t) ==
    /\ step[t] = "idle"
    /\ calls_made[t] < MaxCalls
    /\ \E account_id \in Accounts, use_cache \in BOOLEAN :
          /\ frame' = [frame EXCEPT ![t] = [account_id |-> account_id, use_cache |-> use_cache,
                                            now |-> clock, result |-> PyNone]]
          /\ step' = [step EXCEPT ![t] = AfterBegin(use_cache)]
    /\ UNCHANGED <<cache_lock, calls_made, gwVars, quotVars, valVars, histVars, sessVars, authVars>>

\* clear_cache() up to its with statement
BeginClear(t) ==
    /\ step[t] = "idle"
    /\ calls_made[t] < MaxCalls
    /\ frame' = [frame EXCEPT ![t] = NoFrame]
    /\ step' = [step EXCEPT ![t] = "clear_lock"]
    /\ UNCHANGED <<cache_lock, calls_made, gwVars, quotVars, valVars, histVars, sessVars, authVars>>

\* with _cache_lock: entered when no thread holds the lock
AcquireCacheLock(t) ==
    /\ step[t] \in {"lookup_lock", "store_lock", "clear_lock"}
    /\ cache_lock = NoThread
    /\ cache_lock' = t
    /\ step' = [step EXCEPT ![t] = CASE step[t] = "lookup_lock" -> "lookup"
                                     [] step[t] = "store_lock" -> "store"
                                     [] OTHER -> "clear"]
    /\ UNCHANGED <<frame, calls_made, gwVars, quotVars, valVars, histVars, sessVars, authVars>>

\* lines 246-250: the lookup; a fresh entry is returned
Lookup(t) ==
    /\ step[t] = "lookup"
    /\ LET entry == cache[frame[t].account_id]
           hit == entry # NoEntry /\ Fresh(frame[t].now, entry.timestamp)
       IN  /\ frame' = IF hit THEN [frame EXCEPT ![t].result = entry.data] ELSE frame
           /\ step' = [step EXCEPT ![t] = IF hit THEN "release_hit" ELSE "release_miss"]
    /\ UNCHANGED <<cache_lock, calls_made, gwVars, quotVars, valVars, histVars, sessVars, authVars>>

\* lines 253-276: the portfolio request, outside the lock
Fetch(t) ==
    /\ step[t] = "fetch"
    /\ \E o \in FetchOutcomes :
          LET portfolio == get_portfolio(o.transport, o.body)
          IN  IF portfolio = PyNone
              THEN /\ frame' = [frame EXCEPT ![t].result =
                                   ResultTuple(<<>>, PyNone, frame[t].account_id)]
                   /\ step' = [step EXCEPT ![t] = "return"]
              ELSE /\ frame' = [frame EXCEPT ![t].result =
                                   ResultTuple(AllShares(portfolio), portfolio,
                                               frame[t].account_id)]
                   /\ step' = [step EXCEPT ![t] = AfterFetch(frame[t].use_cache)]
    /\ UNCHANGED <<cache_lock, calls_made, gwVars, quotVars, valVars, histVars, sessVars, authVars>>

\* line 281: _cache[cache_key] = (result, now)
Store(t) ==
    /\ step[t] = "store"
    /\ cache' = [cache EXCEPT ![frame[t].account_id] = CacheEntry(frame[t].result, frame[t].now)]
    /\ step' = [step EXCEPT ![t] = "release_store"]
    /\ UNCHANGED <<cache_lock, frame, calls_made, clock, ticks, issued, stored, last, quotVars, valVars, histVars, sessVars, authVars>>

\* line 76: _cache = {}
Clear(t) ==
    /\ step[t] = "clear"
    /\ cache' = [a \in Accounts |-> NoEntry]
    /\ step' = [step EXCEPT ![t] = "release_clear"]
    /\ UNCHANGED <<cache_lock, frame, calls_made, clock, ticks, issued, stored, last, quotVars, valVars, histVars, sessVars, authVars>>

\* the end of a with block
ReleaseCacheLock(t) ==
    /\ step[t] \in {"release_hit", "release_miss", "release_store", "release_clear"}
    /\ cache_lock' = NoThread
    /\ step' = [step EXCEPT ![t] = IF step[t] = "release_miss" THEN "fetch" ELSE "return"]
    /\ UNCHANGED <<frame, calls_made, gwVars, quotVars, valVars, histVars, sessVars, authVars>>

\* the call returns
Return(t) ==
    /\ step[t] = "return"
    /\ step' = [step EXCEPT ![t] = "idle"]
    /\ frame' = [frame EXCEPT ![t] = NoFrame]
    /\ calls_made' = [calls_made EXCEPT ![t] = @ + 1]
    /\ UNCHANGED <<cache_lock, gwVars, quotVars, valVars, histVars, sessVars, authVars>>

ThreadsNext ==
    \/ \E t \in CacheThreads :
          \/ BeginPositions(t)
          \/ BeginClear(t)
          \/ AcquireCacheLock(t)
          \/ Lookup(t)
          \/ Fetch(t)
          \/ Store(t)
          \/ Clear(t)
          \/ ReleaseCacheLock(t)
          \/ Return(t)
    \/ Tick

SpecCacheThreads == ThreadsInit /\ [][ThreadsNext]_vars

\* C21: every read and write of the cache (the lookup and the store of
\* get_portfolio_positions, the reset of clear_cache) is made by the thread
\* holding the cache lock, so no two threads are inside a cache access at once.
C21_AccessUnderLock ==
    /\ \A t \in CacheThreads : step[t] \in CacheAccesses => cache_lock = t
    /\ Cardinality({t \in CacheThreads : step[t] \in CacheAccesses}) <= 1

\* a thread is about to store while the other waits for the lock to look up or reset
C21_Witness ==
    \E t, u \in CacheThreads :
        /\ step[t] = "store"
        /\ cache_lock = t
        /\ step[u] \in {"lookup_lock", "clear_lock"}

\* C28: once an entry with store time t is in the cache, no later write
\* replaces it with an entry whose store time is earlier than t.
C28_EntryNeverOlder ==
    [][\A a \in Accounts :
          (cache[a] # NoEntry /\ cache'[a] # NoEntry) =>
              cache'[a].timestamp >= cache[a].timestamp]_vars

====
